---- MODULE Spec2Model ----
(***************************************************************************)
(* A model of the safe layer of rust-sdl over the SDL 1.2 C library:       *)
(* the root context `SDL`, the subsystem guards, the WindowBuilder and the *)
(* Surface.  The native library is a recording stub: every native call is  *)
(* appended to `calls`, returns a status or pointer chosen by the          *)
(* environment, and may write the global error slot.                       *)
(***************************************************************************)
EXTENDS Integers, Sequences, FiniteSets, TLC

\* ------------------------------------------------------------------ bounds
MaxSDL == 2
MaxGuards == 2
MaxBuilders == 1
MaxSurfaces == 2
MaxHandle == 2
MaxTitleLen == 1
MaxRaw == 7

\* --------------------------------------------------------------- constants
NULL == 0
Depth == 32
Half == 65536
SDL_APPMOUSEFOCUS == 1
SDL_APPINPUTFOCUS == 2
SDL_APPACTIVE == 4
SDL_RELEASED == 0
SDL_PRESSED == 1

VARIABLES
    sdls,       \* the `SDL` values created so far: [alive]
    guards,     \* the subsystem guards created so far
    builders,   \* the WindowBuilder values created so far
    surfaces,   \* the Surface values created so far
    errSlot,    \* the native library's global error slot
    op,         \* the most recent operation of the safe layer: [name, self]
    calls,      \* the native calls that operation made, in order
    ret         \* what that operation returned

vars == <<sdls, guards, builders, surfaces, errSlot, op, calls, ret>>

\* ------------------------------------------------------------ native stub
Status == {0, -1}
Handles == 1..MaxHandle

Call(fn, args, r) == [ret |-> r, fn |-> fn, args |-> args]

\* The error slot after native function fn ran: a failing call writes its
\* message; a succeeding call overwrites the slot when the library is of the
\* kind that touches the slot on every call.
NativeSlot(slot, fn, failed, clobber) ==
    IF failed \/ clobber THEN fn ELSE slot

\* ------------------------------------------------------------ error values
get_error(slot) == [msg |-> slot, tag |-> "Other"]

get_error_calls(slot) == <<Call("SDL_GetError", <<>>, slot)>>

Ok(v) == [tag |-> "Ok", val |-> v]
Err(e) == [tag |-> "Err", err |-> e]
Unit == [tag |-> "Unit"]

\* ------------------------------------------------------------ root context
\* init that does not look at SDL_Init's status.
init_unchecked(status, clobber) ==
    /\ Len(sdls) < MaxSDL
    /\ errSlot' = NativeSlot(errSlot, "SDL_Init", status # 0, clobber)
    /\ calls' = <<Call("SDL_Init", <<{}>>, status)>>
    /\ ret' = Ok(Len(sdls) + 1)
    /\ sdls' = Append(sdls, [alive |-> TRUE])
    /\ op' = [name |-> "init", self |-> 0]
    /\ UNCHANGED <<guards, builders, surfaces>>

init(status, clobber) ==
    /\ Len(sdls) < MaxSDL
    /\ LET slot == NativeSlot(errSlot, "SDL_Init", status # 0, clobber)
       IN  /\ errSlot' = slot
           /\ IF status # 0
              THEN /\ calls' = <<Call("SDL_Init", <<{}>>, status)>>
                                 \o get_error_calls(slot)
                   /\ ret' = Err(get_error(slot))
                   /\ sdls' = sdls
              ELSE /\ calls' = <<Call("SDL_Init", <<{}>>, status)>>
                   /\ ret' = Ok(Len(sdls) + 1)
                   /\ sdls' = Append(sdls, [alive |-> TRUE])
    /\ op' = [name |-> "init", self |-> 0]
    /\ UNCHANGED <<guards, builders, surfaces>>

drop_SDL(s, clobber) ==
    /\ s \in 1..Len(sdls)
    /\ sdls[s].alive
    /\ sdls' = [sdls EXCEPT ![s].alive = FALSE]
    /\ calls' = <<Call("SDL_Quit", <<>>, "void")>>
    /\ errSlot' = NativeSlot(errSlot, "SDL_Quit", FALSE, clobber)
    /\ ret' = Unit
    /\ op' = [name |-> "drop_SDL", self |-> s]
    /\ UNCHANGED <<guards, builders, surfaces>>

\* -------------------------------------------------------- subsystem guards
Kinds == {"video", "timer", "cdrom", "event"}

InitMask(kind) ==
    CASE kind = "video" -> {"SDL_INIT_VIDEO"}
      [] kind = "timer" -> {"SDL_INIT_TIMER"}
      [] kind = "cdrom" -> {"SDL_INIT_CDROM"}
      [] kind = "event" -> {"SDL_INIT_EVENTTHREAD"}

\* QuitMask with every Drop quitting the video subsystem.
QuitMask_video(kind) == {"SDL_INIT_VIDEO"}

QuitMask(kind) ==
    CASE kind = "video" -> {"SDL_INIT_VIDEO"}
      [] kind = "timer" -> {"SDL_INIT_TIMER"}
      [] kind = "cdrom" -> {"SDL_INIT_CDROM"}
      [] kind = "event" -> {"SDL_INIT_EVENTTHREAD"}

\* Subsystem_new that does not look at SDL_InitSubSystem's status.
Subsystem_new_unchecked(name, kind, sdl, status, clobber) ==
    /\ Len(guards) < MaxGuards
    /\ errSlot' = NativeSlot(errSlot, "SDL_InitSubSystem", status # 0, clobber)
    /\ calls' = <<Call("SDL_InitSubSystem", <<InitMask(kind)>>, status)>>
    /\ ret' = Ok(Len(guards) + 1)
    /\ guards' = Append(guards,
           [alive |-> TRUE, kind |-> kind, sdl |-> sdl,
            mask |-> InitMask(kind), quits |-> <<>>])
    /\ op' = [name |-> name, self |-> sdl]
    /\ UNCHANGED <<sdls, builders, surfaces>>

\* The body shared by the four constructors; sdl is the `&SDL` argument, 0
\* for the constructors that take none.
Subsystem_new(name, kind, sdl, status, clobber) ==
    /\ Len(guards) < MaxGuards
    /\ LET slot == NativeSlot(errSlot, "SDL_InitSubSystem", status # 0, clobber)
           c    == Call("SDL_InitSubSystem", <<InitMask(kind)>>, status)
       IN  /\ errSlot' = slot
           /\ IF status # 0
              THEN /\ calls' = <<c>> \o get_error_calls(slot)
                   /\ ret' = Err(get_error(slot))
                   /\ guards' = guards
              ELSE /\ calls' = <<c>>
                   /\ ret' = Ok(Len(guards) + 1)
                   /\ guards' = Append(guards,
                          [alive |-> TRUE, kind |-> kind, sdl |-> sdl,
                           mask |-> InitMask(kind),
                           quits |-> <<>>])
    /\ op' = [name |-> name, self |-> sdl]
    /\ UNCHANGED <<sdls, builders, surfaces>>

VideoSubsystem_new(s, status, clobber) ==
    /\ s \in 1..Len(sdls)
    /\ sdls[s].alive
    /\ Subsystem_new("video", "video", s, status, clobber)

video(s, status, clobber) == VideoSubsystem_new(s, status, clobber)

timer_Subsystem_new(status, clobber) ==
    Subsystem_new("timer_new", "timer", 0, status, clobber)

cdrom_Subsystem_new(status, clobber) ==
    Subsystem_new("cdrom_new", "cdrom", 0, status, clobber)

event_Subsystem_new(status, clobber) ==
    Subsystem_new("event_new", "event", 0, status, clobber)

drop_Subsystem(g, clobber) ==
    /\ g \in 1..Len(guards)
    /\ guards[g].alive
    /\ guards' = [guards EXCEPT ![g].alive = FALSE,
                                ![g].quits = Append(@, QuitMask(guards[g].kind))]
    /\ calls' = <<Call("SDL_QuitSubSystem", <<QuitMask(guards[g].kind)>>, "void")>>
    /\ errSlot' = NativeSlot(errSlot, "SDL_QuitSubSystem", FALSE, clobber)
    /\ ret' = Unit
    /\ op' = [name |-> "drop_Subsystem", self |-> g]
    /\ UNCHANGED <<sdls, builders, surfaces>>

\* --------------------------------------------------------- u32 and c_int
\* A u32 is kept as two 16-bit halves, so that 2^31 and above are exact.
U32(hi, lo) == [hi |-> hi, lo |-> lo]

Shl31 == U32(Half \div 2, 0)

U32_ge(a, b) == a.hi > b.hi \/ (a.hi = b.hi /\ a.lo >= b.lo)

\* `x as c_int`: the same 32 bits read as a signed integer.
as_c_int(u) ==
    IF u.hi >= Half \div 2 THEN (u.hi - Half) * Half + u.lo
                           ELSE u.hi * Half + u.lo

\* ----------------------------------------------------------- WindowBuilder
TitleBytes == {0, 97}

Titles == UNION {[1..n -> TitleBytes] : n \in 0..MaxTitleLen}

Widths == {U32(0, 800), U32(Half \div 2 - 1, Half - 1), Shl31}

Heights == {U32(0, 600), U32(Half \div 2 - 1, Half - 1), Shl31}

NulPositions(bytes) == {i \in 1..Len(bytes) : bytes[i] = 0}

\* CString::new: the bytes with a terminator appended, or NulError carrying
\* the position of the first NUL byte.
CString_new(bytes) ==
    IF NulPositions(bytes) # {}
    THEN Err([nul_position |->
                 (CHOOSE i \in NulPositions(bytes) :
                     \A j \in NulPositions(bytes) : i <= j) - 1])
    ELSE Ok(Append(bytes, 0))

WindowBuilder_new(v, title, width, height) ==
    /\ v \in 1..Len(guards)
    /\ guards[v].kind = "video"
    /\ guards[v].alive
    /\ Len(builders) < MaxBuilders
    /\ builders' = Append(builders,
           [v |-> v, title |-> title, width |-> width, height |-> height,
            window_flags |-> {}])
    /\ calls' = <<>>
    /\ ret' = Ok(Len(builders) + 1)
    /\ op' = [name |-> "window", self |-> v]
    /\ UNCHANGED <<sdls, guards, surfaces, errSlot>>

window(v, title, width, height) == WindowBuilder_new(v, title, width, height)

\* set_flag that assigns the bit instead of OR-ing it in.
set_flag_assign(name, b, bit) ==
    /\ b \in 1..Len(builders)
    /\ builders' = [builders EXCEPT ![b].window_flags = {bit}]
    /\ calls' = <<>>
    /\ ret' = Unit
    /\ op' = [name |-> name, self |-> b]
    /\ UNCHANGED <<sdls, guards, surfaces, errSlot>>

set_flag(name, b, bit) ==
    /\ b \in 1..Len(builders)
    /\ builders' = [builders EXCEPT ![b].window_flags = @ \cup {bit}]
    /\ calls' = <<>>
    /\ ret' = Unit
    /\ op' = [name |-> name, self |-> b]
    /\ UNCHANGED <<sdls, guards, surfaces, errSlot>>

fullscreen(b) == set_flag("fullscreen", b, "SDL_FULLSCREEN")

opengl(b) == set_flag("opengl", b, "SDL_OPENGL")

borderless(b) == set_flag("borderless", b, "SDL_NOFRAME")

resizable(b) == set_flag("resizable", b, "SDL_RESIZABLE")

\* build_validate without the height check.
build_validate_noheight(self) ==
    IF CString_new(self.title).tag = "Err"
    THEN Err([tag |-> "InvalidTitle", v |-> CString_new(self.title).err])
    ELSE IF U32_ge(self.width, Shl31)
    THEN Err([tag |-> "WidthOverflows", v |-> self.width])
    ELSE Ok(CString_new(self.title).val)

\* build_validate with the size checks ahead of the title check.
build_validate_sizefirst(self) ==
    IF U32_ge(self.width, Shl31)
    THEN Err([tag |-> "WidthOverflows", v |-> self.width])
    ELSE IF U32_ge(self.height, Shl31)
    THEN Err([tag |-> "HeightOverflows", v |-> self.width])
    ELSE IF CString_new(self.title).tag = "Err"
    THEN Err([tag |-> "InvalidTitle", v |-> CString_new(self.title).err])
    ELSE Ok(CString_new(self.title).val)

\* build_validate that unwraps CString::new: a NUL byte in the title panics.
build_validate_unwrap(self) ==
    IF CString_new(self.title).tag = "Err"
    THEN Err([tag |-> "Panic", v |-> CString_new(self.title).err])
    ELSE IF U32_ge(self.width, Shl31)
    THEN Err([tag |-> "WidthOverflows", v |-> self.width])
    ELSE IF U32_ge(self.height, Shl31)
    THEN Err([tag |-> "HeightOverflows", v |-> self.width])
    ELSE Ok(CString_new(self.title).val)

\* build_validate with `>` for `>=` in the size checks: 2^31 itself passes.
build_validate_gt(self) ==
    IF CString_new(self.title).tag = "Err"
    THEN Err([tag |-> "InvalidTitle", v |-> CString_new(self.title).err])
    ELSE IF U32_ge(self.width, Shl31) /\ self.width # Shl31
    THEN Err([tag |-> "WidthOverflows", v |-> self.width])
    ELSE IF U32_ge(self.height, Shl31) /\ self.height # Shl31
    THEN Err([tag |-> "HeightOverflows", v |-> self.width])
    ELSE Ok(CString_new(self.title).val)

\* The checks build() makes before its unsafe block.
build_validate(self) ==
    IF CString_new(self.title).tag = "Err"
    THEN Err([tag |-> "InvalidTitle", v |-> CString_new(self.title).err])
    ELSE IF U32_ge(self.width, Shl31)
    THEN Err([tag |-> "WidthOverflows", v |-> self.width])
    ELSE IF U32_ge(self.height, Shl31)
    THEN Err([tag |-> "HeightOverflows", v |-> self.width])
    ELSE Ok(CString_new(self.title).val)

\* SDL_SetVideoMode_call with width and height exchanged.
SDL_SetVideoMode_call_swapped(self, raw) ==
    Call("SDL_SetVideoMode",
         <<as_c_int(self.height), as_c_int(self.width), Depth, self.window_flags>>,
         raw)

SDL_SetVideoMode_call(self, raw) ==
    Call("SDL_SetVideoMode",
         <<as_c_int(self.width), as_c_int(self.height), Depth, self.window_flags>>,
         raw)

\* build_unsafe without the null check: whatever mode-set returns is wrapped.
build_unsafe_nonull(self, title, raw, clobber, slot0) ==
    LET slot1 == NativeSlot(slot0, "SDL_SetVideoMode", raw = NULL, clobber)
        slot2 == NativeSlot(slot1, "SDL_WM_SetCaption", FALSE, clobber)
        two   == <<SDL_SetVideoMode_call(self, raw),
                   Call("SDL_WM_SetCaption", <<title, NULL>>, "void")>>
    IN  [calls |-> two, ret |-> Ok(raw), slot |-> slot2]

\* The native calls of build()'s unsafe block, with the error slot each
\* leaves behind: mode-set, caption-set, then the null check.
build_unsafe(self, title, raw, clobber, slot0) ==
    LET slot1 == NativeSlot(slot0, "SDL_SetVideoMode", raw = NULL, clobber)
        slot2 == NativeSlot(slot1, "SDL_WM_SetCaption", FALSE, clobber)
        two   == <<SDL_SetVideoMode_call(self, raw),
                   Call("SDL_WM_SetCaption", <<title, NULL>>, "void")>>
    IN  IF raw = NULL
        THEN [calls |-> two \o get_error_calls(slot2),
              ret |-> Err([tag |-> "SdlError", v |-> get_error(slot2)]),
              slot |-> slot2]
        ELSE [calls |-> two, ret |-> Ok(raw), slot |-> slot2]

\* build that moves the title out of the builder instead of cloning it.
build_taking(b, raw, clobber) ==
    /\ b \in 1..Len(builders)
    /\ op' = [name |-> "build", self |-> b]
    /\ LET self == builders[b]
           chk  == build_validate(self)
       IN  IF chk.tag = "Err"
           THEN /\ calls' = <<>>
                /\ ret' = chk
                /\ UNCHANGED <<surfaces, errSlot>>
           ELSE LET r == build_unsafe(self, chk.val, raw, clobber, errSlot)
                IN  /\ calls' = r.calls
                    /\ errSlot' = r.slot
                    /\ IF r.ret.tag = "Err"
                       THEN /\ ret' = r.ret
                            /\ surfaces' = surfaces
                       ELSE /\ Len(surfaces) < MaxSurfaces
                            /\ ret' = Ok(Len(surfaces) + 1)
                            /\ surfaces' = Append(surfaces,
                                   [v |-> self.v, alive |-> TRUE,
                                    builder |-> b,
                                    frees |-> <<>>,
                                    inner |-> raw])
    /\ builders' = [builders EXCEPT ![b].title = <<>>]
    /\ UNCHANGED <<sdls, guards>>

build(b, raw, clobber) ==
    /\ b \in 1..Len(builders)
    /\ op' = [name |-> "build", self |-> b]
    /\ LET self == builders[b]
           chk  == build_validate(self)
       IN  IF chk.tag = "Err"
           THEN /\ calls' = <<>>
                /\ ret' = chk
                /\ UNCHANGED <<surfaces, errSlot>>
           ELSE LET r == build_unsafe(self, chk.val, raw, clobber, errSlot)
                IN  /\ calls' = r.calls
                    /\ errSlot' = r.slot
                    /\ IF r.ret.tag = "Err"
                       THEN /\ ret' = r.ret
                            /\ surfaces' = surfaces
                       ELSE /\ Len(surfaces) < MaxSurfaces
                            /\ ret' = Ok(Len(surfaces) + 1)
                            /\ surfaces' = Append(surfaces,
                                   [v |-> self.v, alive |-> TRUE,
                                    builder |-> b,
                                    frees |-> <<>>,
                                    inner |-> raw])
    /\ UNCHANGED <<sdls, guards, builders>>

\* ----------------------------------------------------------------- Surface
\* flip that tests the status for `< 0` where the library reports failure
\* with another non-zero value, here taken as never failing.
flip_unchecked(s, status, clobber) ==
    /\ s \in 1..Len(surfaces)
    /\ surfaces[s].alive
    /\ errSlot' = NativeSlot(errSlot, "SDL_Flip", status # 0, clobber)
    /\ calls' = <<Call("SDL_Flip", <<surfaces[s].inner>>, status)>>
    /\ ret' = Ok(Unit)
    /\ op' = [name |-> "flip", self |-> s]
    /\ UNCHANGED <<sdls, guards, builders, surfaces>>

flip(s, status, clobber) ==
    /\ s \in 1..Len(surfaces)
    /\ surfaces[s].alive
    /\ LET slot == NativeSlot(errSlot, "SDL_Flip", status # 0, clobber)
           c    == Call("SDL_Flip", <<surfaces[s].inner>>, status)
       IN  /\ errSlot' = slot
           /\ IF status # 0
              THEN /\ calls' = <<c>> \o get_error_calls(slot)
                   /\ ret' = Err(get_error(slot))
              ELSE /\ calls' = <<c>>
                   /\ ret' = Ok(Unit)
    /\ op' = [name |-> "flip", self |-> s]
    /\ UNCHANGED <<sdls, guards, builders, surfaces>>

\* drop_Surface that marks every Surface of the same handle as released.
drop_Surface_shared(s, clobber) ==
    /\ s \in 1..Len(surfaces)
    /\ surfaces[s].alive
    /\ surfaces' = [t \in 1..Len(surfaces) |->
           IF t = s
           THEN [surfaces[t] EXCEPT !.alive = FALSE,
                                    !.frees = Append(@, surfaces[s].inner)]
           ELSE IF surfaces[t].inner = surfaces[s].inner
           THEN [surfaces[t] EXCEPT !.alive = FALSE]
           ELSE surfaces[t]]
    /\ calls' = <<Call("SDL_FreeSurface", <<surfaces[s].inner>>, "void")>>
    /\ errSlot' = NativeSlot(errSlot, "SDL_FreeSurface", FALSE, clobber)
    /\ ret' = Unit
    /\ op' = [name |-> "drop_Surface", self |-> s]
    /\ UNCHANGED <<sdls, guards, builders>>

drop_Surface(s, clobber) ==
    /\ s \in 1..Len(surfaces)
    /\ surfaces[s].alive
    /\ surfaces' = [surfaces EXCEPT ![s].alive = FALSE,
                                    ![s].frees = Append(@, surfaces[s].inner)]
    /\ calls' = <<Call("SDL_FreeSurface", <<surfaces[s].inner>>, "void")>>
    /\ errSlot' = NativeSlot(errSlot, "SDL_FreeSurface", FALSE, clobber)
    /\ ret' = Unit
    /\ op' = [name |-> "drop_Surface", self |-> s]
    /\ UNCHANGED <<sdls, guards, builders>>

\* -------------------------------------------------------- error codes
SDL_errorcode ==
    {"SDL_ENOMEM", "SDL_EFREAD", "SDL_EFWRITE", "SDL_EFSEEK",
     "SDL_UNSUPPORTED", "SDL_LASTERROR"}

\* impl From<sys::SDL_errorcode> for ErrorCode
ErrorCode_from(value) ==
    CASE value = "SDL_ENOMEM" -> "NoMemError"
      [] value = "SDL_EFREAD" -> "ReadError"
      [] value = "SDL_EFWRITE" -> "WriteError"
      [] value = "SDL_EFSEEK" -> "SeekError"
      [] value = "SDL_UNSUPPORTED" -> "UnsupportedError"
      [] OTHER -> "UnsupportedError"

\* A pure function applied to an input: no native call, no object touched.
Apply(name, value, result) ==
    /\ op' = [name |-> name, self |-> value]
    /\ calls' = <<>>
    /\ ret' = result
    /\ UNCHANGED <<sdls, guards, builders, surfaces, errSlot>>

ErrorCode_from_step(value) ==
    Apply("ErrorCode_from", value, ErrorCode_from(value))

\* get_error() called right after a native failure whose error the library
\* reported with `code` (SDL_Error(code) writes that code's message).
get_error_step(code) ==
    /\ errSlot' = code
    /\ calls' = get_error_calls(code)
    /\ ret' = get_error(code)
    /\ op' = [name |-> "get_error", self |-> code]
    /\ UNCHANGED <<sdls, guards, builders, surfaces>>

\* ------------------------------------------------------------ event decode
Bytes == 0..MaxRaw

Bits == {0, 1}

\* ActiveEvent_from that takes any non-zero gain for a gain of focus.
ActiveEvent_from_anygain(value) ==
    CASE value.state = SDL_APPMOUSEFOCUS /\ value.gain = 0 -> "MouseLeave"
      [] value.state = SDL_APPMOUSEFOCUS /\ value.gain # 0 -> "MouseEnter"
      [] value.state = SDL_APPINPUTFOCUS /\ value.gain = 0 -> "AppUnfocused"
      [] value.state = SDL_APPINPUTFOCUS /\ value.gain # 0 -> "AppFocused"
      [] value.state = SDL_APPACTIVE /\ value.gain = 0 -> "Minimized"
      [] value.state = SDL_APPACTIVE /\ value.gain # 0 -> "Restored"
      [] OTHER -> "Unknown"

ActiveEvent_from(value) ==
    CASE value.state = SDL_APPMOUSEFOCUS /\ value.gain = 0 -> "MouseLeave"
      [] value.state = SDL_APPMOUSEFOCUS /\ value.gain = 1 -> "MouseEnter"
      [] value.state = SDL_APPINPUTFOCUS /\ value.gain = 0 -> "AppUnfocused"
      [] value.state = SDL_APPINPUTFOCUS /\ value.gain = 1 -> "AppFocused"
      [] value.state = SDL_APPACTIVE /\ value.gain = 0 -> "Minimized"
      [] value.state = SDL_APPACTIVE /\ value.gain = 1 -> "Restored"
      [] OTHER -> "Unknown"

KeyboardEvent_from(value) ==
    CASE value.state = SDL_RELEASED -> [tag |-> "KeyUp",
                                        keysym |-> value.keysym]
      [] value.state = SDL_PRESSED -> [tag |-> "KeyDown",
                                       keysym |-> value.keysym]
      [] OTHER -> [tag |-> "Unknown"]

MouseMotionEvent_from(value) ==
    [x |-> value.x, xrel |-> value.xrel, y |-> value.y, yrel |-> value.yrel]

\* impl From<u8> for Button, with SDL_BUTTON_LEFT..SDL_BUTTON_X2 = 1..7
Button_from(value) ==
    CASE value = 1 -> [tag |-> "Left"]
      [] value = 2 -> [tag |-> "Middle"]
      [] value = 3 -> [tag |-> "Right"]
      [] value = 4 -> [tag |-> "WheelUp"]
      [] value = 5 -> [tag |-> "WheelDown"]
      [] value = 6 -> [tag |-> "X1"]
      [] value = 7 -> [tag |-> "X2"]
      [] OTHER -> [tag |-> "Other", v |-> value]

MouseButtonEvent_from(value) ==
    [x |-> value.x, y |-> value.y, button |-> Button_from(value.button),
     pressed |-> (value.state = SDL_PRESSED)]

\* JoyAxisEvent_from that clamps the axis value to -32767..32767.
JoyAxisEvent_from_clamped(value) ==
    [value |-> IF value.value < -32767 THEN -32767 ELSE value.value,
     axis |-> value.axis, device |-> value.which]

JoyAxisEvent_from(value) ==
    [value |-> value.value, axis |-> value.axis, device |-> value.which]

JoyButtonEvent_from(value) ==
    [button |-> value.button, pressed |-> (value.state = SDL_PRESSED),
     device |-> value.which]

JoyHatEvent_from(value) ==
    [value |-> value.value, device |-> value.which, hat |-> value.hat]

JoyBallEvent_from(value) ==
    [xrel |-> value.xrel, yrel |-> value.yrel, device |-> value.which,
     ball |-> value.ball]

ResizeEvent_from(value) == [h |-> value.h, w |-> value.w]

\* The Event variant the event_from! conversions give a payload.
Event(tag, payload) == [tag |-> tag, val |-> payload]

\* The values of a raw record's discriminant byte.
EventTypes == 0..255

\* One raw record's union, with a sample payload for every member.
SampleUnion ==
    [button |-> [state |-> SDL_PRESSED, x |-> 10, y |-> 20, button |-> 1],
     active |-> [state |-> SDL_APPINPUTFOCUS, gain |-> 1],
     jaxis |-> [value |-> -32768, axis |-> 1, which |-> 0],
     jball |-> [xrel |-> -1, yrel |-> 1, which |-> 0, ball |-> 1],
     jbutton |-> [state |-> SDL_RELEASED, button |-> 1, which |-> 0],
     jhat |-> [value |-> 8, which |-> 0, hat |-> 1],
     key |-> [state |-> SDL_PRESSED, keysym |-> 97],
     motion |-> [x |-> 10, xrel |-> -1, y |-> 20, yrel |-> 1],
     resize |-> [h |-> 600, w |-> 800], user |-> [code |-> 0]]

\* Event_from that has no arm for the discriminants without a handler.
Event_from_partial(type, u) ==
    CASE type = 1 -> Event("Active", ActiveEvent_from(u.active))
      [] type \in {2, 3} -> Event("Keyboard", KeyboardEvent_from(u.key))
      [] type = 12 -> [tag |-> "Quit"]
      [] OTHER -> [tag |-> "Panic"]

\* The dispatch on the discriminant (SDL_ACTIVEEVENT = 1 .. SDL_USEREVENT =
\* 24..31), each payload decoded by its From impl.
Event_from(type, u) ==
    CASE type = 1 -> Event("Active", ActiveEvent_from(u.active))
      [] type \in {2, 3} -> Event("Keyboard", KeyboardEvent_from(u.key))
      [] type = 4 -> Event("MouseMotion", MouseMotionEvent_from(u.motion))
      [] type \in {5, 6} -> Event("MouseButton", MouseButtonEvent_from(u.button))
      [] type = 7 -> Event("JoyAxis", JoyAxisEvent_from(u.jaxis))
      [] type = 8 -> Event("JoyBall", JoyBallEvent_from(u.jball))
      [] type = 9 -> Event("JoyHat", JoyHatEvent_from(u.jhat))
      [] type \in {10, 11} -> Event("JoyButton", JoyButtonEvent_from(u.jbutton))
      [] type = 12 -> [tag |-> "Quit"]
      [] type = 16 -> Event("Resize", ResizeEvent_from(u.resize))
      [] type = 17 -> [tag |-> "Expose"]
      [] type \in 24..31 -> Event("User", u.user)
      [] OTHER -> [tag |-> "Unknown"]

ActiveEvent_from_step(value) ==
    Apply("ActiveEvent_from", value, ActiveEvent_from(value))

KeyboardEvent_from_step(value) ==
    Apply("KeyboardEvent_from", value, KeyboardEvent_from(value))

MouseButtonEvent_from_step(value) ==
    Apply("MouseButtonEvent_from", value, MouseButtonEvent_from(value))

JoyButtonEvent_from_step(value) ==
    Apply("JoyButtonEvent_from", value, JoyButtonEvent_from(value))

MouseMotionEvent_from_step(value) ==
    Apply("MouseMotionEvent_from", value, MouseMotionEvent_from(value))

JoyAxisEvent_from_step(value) ==
    Apply("JoyAxisEvent_from", value, JoyAxisEvent_from(value))

JoyHatEvent_from_step(value) ==
    Apply("JoyHatEvent_from", value, JoyHatEvent_from(value))

JoyBallEvent_from_step(value) ==
    Apply("JoyBallEvent_from", value, JoyBallEvent_from(value))

ResizeEvent_from_step(value) ==
    Apply("ResizeEvent_from", value, ResizeEvent_from(value))

\* The ends (and for the signed types the middle) of each scalar type.
U8s == {0, 255}

U16s == {0, 65535}

I16s == {-32768, 0, 32767}

I32s == {-2147483647, 0, 2147483647}

Event_from_step(type, u) ==
    Apply("Event_from", [u |-> u, type |-> type], Event_from(type, u))

\* ------------------------------------------------------------------ Color
\* The u8 values a channel is sampled at.
ColorBytes == {0, 1, 2, 3, 4, 127, 128, 255}

Colors == [r : ColorBytes, g : ColorBytes, a : ColorBytes, b : ColorBytes]

Color_rgb(r, g, b) == [r |-> r, g |-> g, a |-> 255, b |-> b]

Color_rgba(r, g, b, a) == [r |-> r, g |-> g, a |-> a, b |-> b]

\* Color::raw (and Into<sys::SDL_Color>)
Color_raw(self) ==
    [r |-> self.r, g |-> self.g, b |-> self.b, unused |-> self.a]

\* Color_from_SDL_Color that builds an opaque colour and drops `unused`.
Color_from_SDL_Color_rgb(raw) == Color_rgb(raw.r, raw.g, raw.b)

\* impl From<sys::SDL_Color> for Color
Color_from_SDL_Color(raw) == Color_rgba(raw.r, raw.g, raw.b, raw.unused)

\* u32::from_be_bytes: the first byte is the most significant.
from_be_bytes(bytes) ==
    U32(bytes[1] * 256 + bytes[2], bytes[3] * 256 + bytes[4])

\* Color_into_u32 that packs with the first byte least significant.
Color_into_u32_le(self) ==
    U32(self.a * 256 + self.b, self.g * 256 + self.r)

\* impl Into<u32> for Color
Color_into_u32(self) == from_be_bytes(<<self.r, self.g, self.b, self.a>>)

\* The unpacking of the big-endian packed form: r, g, b, a from the most
\* significant byte down.
Color_from_u32(u) ==
    Color_rgba(u.hi \div 256, u.hi % 256, u.lo \div 256, u.lo % 256)

Color_raw_step(c) == Apply("Color_raw", c, Color_raw(c))

Color_from_SDL_Color_step(raw) ==
    Apply("Color_from_SDL_Color", raw, Color_from_SDL_Color(raw))

Color_into_u32_step(c) == Apply("Color_into_u32", c, Color_into_u32(c))

\* ------------------------------------------------------------------- specs
Init ==
    /\ sdls = <<>>
    /\ guards = <<>>
    /\ builders = <<>>
    /\ surfaces = <<>>
    /\ errSlot = ""
    /\ op = [name |-> "none", self |-> 0]
    /\ calls = <<>>
    /\ ret = Unit

Next ==
    \/ \E st \in Status, cl \in BOOLEAN : init(st, cl)
    \/ \E s \in 1..MaxSDL, cl \in BOOLEAN : drop_SDL(s, cl)
    \/ \E s \in 1..MaxSDL, st \in Status, cl \in BOOLEAN : video(s, st, cl)
    \/ \E st \in Status, cl \in BOOLEAN : timer_Subsystem_new(st, cl)
    \/ \E st \in Status, cl \in BOOLEAN : cdrom_Subsystem_new(st, cl)
    \/ \E st \in Status, cl \in BOOLEAN : event_Subsystem_new(st, cl)
    \/ \E g \in 1..MaxGuards, cl \in BOOLEAN : drop_Subsystem(g, cl)

Spec == Init /\ [][Next]_vars

\* The state after `let sdl_context = sdl::init()?;
\* let video_subsystem = sdl_context.video()?;`
InitVideo ==
    /\ sdls = <<[alive |-> TRUE]>>
    /\ guards = <<[alive |-> TRUE, kind |-> "video", sdl |-> 1,
                   mask |-> InitMask("video"),
                   quits |-> <<>>]>>
    /\ builders = <<>>
    /\ surfaces = <<>>
    /\ errSlot = ""
    /\ op = [name |-> "video", self |-> 1]
    /\ calls = <<Call("SDL_InitSubSystem", <<InitMask("video")>>, 0)>>
    /\ ret = Ok(1)

ExampleTitle == <<97>>

\* Teardown order of the video objects: one context and one video guard,
\* windows with the example's arguments.
NextVideo ==
    \/ \E cl \in BOOLEAN : drop_SDL(1, cl)
    \/ \E cl \in BOOLEAN : drop_Subsystem(1, cl)
    \/ window(1, ExampleTitle, U32(0, 800), U32(0, 600))
    \/ \E b \in 1..MaxBuilders, raw \in {NULL} \cup Handles, cl \in BOOLEAN :
           build(b, raw, cl)
    \/ \E s \in 1..MaxSurfaces, st \in Status, cl \in BOOLEAN : flip(s, st, cl)
    \/ \E s \in 1..MaxSurfaces, cl \in BOOLEAN : drop_Surface(s, cl)

SpecVideo == InitVideo /\ [][NextVideo]_vars

\* The state after `video_subsystem.window(title, width, height)` for every
\* title, width and height of the input sets.
InitBuild ==
    /\ sdls = <<[alive |-> TRUE]>>
    /\ guards = <<[alive |-> TRUE, kind |-> "video", sdl |-> 1,
                   mask |-> InitMask("video"),
                   quits |-> <<>>]>>
    /\ \E title \in Titles, width \in Widths, height \in Heights :
           builders = <<[v |-> 1, title |-> title, width |-> width,
                         height |-> height,
                         window_flags |-> {}]>>
    /\ surfaces = <<>>
    /\ errSlot = ""
    /\ op = [name |-> "window", self |-> 1]
    /\ calls = <<>>
    /\ ret = Ok(1)

NextBuild ==
    \/ fullscreen(1)
    \/ opengl(1)
    \/ borderless(1)
    \/ resizable(1)
    \/ \E raw \in {NULL} \cup Handles, cl \in BOOLEAN : build(1, raw, cl)

SpecBuild == InitBuild /\ [][NextBuild]_vars

\* The conversions, each applied to every input of its input set.
NextPure ==
    \/ \E code \in SDL_errorcode \cup {"SDL_SetVideoMode"} : get_error_step(code)
    \/ \E code \in SDL_errorcode : ErrorCode_from_step(code)
    \/ \E st \in Bytes, g \in Bytes :
           ActiveEvent_from_step([state |-> st, gain |-> g])
    \/ \E st \in Bytes, k \in Bytes :
           KeyboardEvent_from_step([state |-> st, keysym |-> k])
    \/ \E b \in Bytes, st \in Bytes, x \in Bits, y \in Bits :
           MouseButtonEvent_from_step([state |-> st, x |-> x, y |-> y,
                                       button |-> b])
    \/ \E w \in Bits, b \in Bits, st \in Bytes :
           JoyButtonEvent_from_step([state |-> st, button |-> b, which |-> w])
    \/ \E t \in EventTypes : Event_from_step(t, SampleUnion)

SpecPure == Init /\ [][NextPure]_vars

\* The state after `let c = Color::rgba(r, g, b, a);` for every colour of
\* the input set.
InitColor ==
    /\ sdls = <<>>
    /\ guards = <<>>
    /\ builders = <<>>
    /\ surfaces = <<>>
    /\ errSlot = ""
    /\ \E c \in Colors :
           /\ op = [name |-> "Color_rgba", self |-> <<c.r, c.g, c.b, c.a>>]
           /\ ret = Color_rgba(c.r, c.g, c.b, c.a)
    /\ calls = <<>>

\* Whether the value last returned is a Color.
HoldsColor == op.name \in {"Color_rgba", "Color_from_SDL_Color"}

\* The colour conversions, each applied to the value last returned.
NextColor ==
    \/ HoldsColor /\ Color_raw_step(ret)
    \/ op.name = "Color_raw" /\ Color_from_SDL_Color_step(ret)
    \/ HoldsColor /\ Color_into_u32_step(ret)

SpecColor == InitColor /\ [][NextColor]_vars

\* The discriminants up to the last user event and the first one after it.
SampleTypes == {t \in EventTypes : t <= 32}

\* Whether the run is just past a successful `window.flip()?`.
Flipped == op.name = "flip" /\ ret = Ok(Unit)

\* One run of the core in program order: init, video, one window for every
\* title, width and height of the input sets, the flag setters, build, flip,
\* and then one raw event decoded.
NextCore ==
    \/ sdls = <<>> /\ \E st \in Status, cl \in BOOLEAN : init(st, cl)
    \/ guards = <<>> /\ \E st \in Status, cl \in BOOLEAN : video(1, st, cl)
    \/ builders = <<>> /\ \E title \in Titles, width \in Widths, height \in Heights :
           window(1, title, width, height)
    \/ surfaces = <<>> /\ fullscreen(1)
    \/ surfaces = <<>> /\ opengl(1)
    \/ surfaces = <<>> /\ borderless(1)
    \/ surfaces = <<>> /\ resizable(1)
    \/ surfaces = <<>> /\ \E raw \in {NULL} \cup Handles, cl \in BOOLEAN :
           build(1, raw, cl)
    \/ \E st \in Status, cl \in BOOLEAN : flip(1, st, cl)
    \/ Flipped /\ \E st \in Bytes, g \in Bytes :
           ActiveEvent_from_step([state |-> st, gain |-> g])
    \/ Flipped /\ \E st \in Bytes, k \in Bytes :
           KeyboardEvent_from_step([state |-> st, keysym |-> k])
    \/ Flipped /\ \E b \in Bits, st \in Bytes, x \in Bits, y \in Bits :
           MouseButtonEvent_from_step([state |-> st, x |-> x, y |-> y,
                                       button |-> b])
    \/ Flipped /\ \E w \in Bits, b \in Bits, st \in Bytes :
           JoyButtonEvent_from_step([state |-> st, button |-> b, which |-> w])
    \/ Flipped /\ \E t \in SampleTypes : Event_from_step(t, SampleUnion)

SpecCore == Init /\ [][NextCore]_vars

\* The decoders of the scalar payloads, each applied to every input of its
\* input set.
NextScalar ==
    \/ \E x \in U16s, y \in U16s, xrel \in I16s, yrel \in I16s :
           MouseMotionEvent_from_step(
               [x |-> x, xrel |-> xrel, y |-> y, yrel |-> yrel])
    \/ \E b \in U8s \cup {1}, st \in Bits, x \in U16s, y \in U16s :
           MouseButtonEvent_from_step(
               [state |-> st, x |-> x, y |-> y, button |-> b])
    \/ \E w \in U8s, a \in U8s, v \in I16s :
           JoyAxisEvent_from_step([value |-> v, axis |-> a, which |-> w])
    \/ \E w \in U8s, b \in U8s, st \in Bits :
           JoyButtonEvent_from_step([state |-> st, button |-> b, which |-> w])
    \/ \E w \in U8s, h \in U8s, v \in U8s :
           JoyHatEvent_from_step([value |-> v, which |-> w, hat |-> h])
    \/ \E w \in U8s, b \in U8s, xrel \in I16s, yrel \in I16s :
           JoyBallEvent_from_step(
               [xrel |-> xrel, yrel |-> yrel, which |-> w, ball |-> b])
    \/ \E w \in I32s, h \in I32s : ResizeEvent_from_step([h |-> h, w |-> w])

SpecScalar == Init /\ [][NextScalar]_vars

\* ================================================================== claims
\* The native functions called, in order, and how often one was called.
Fns(cs) == [i \in 1..Len(cs) |-> cs[i].fn]

Count(cs, fn) == Cardinality({i \in 1..Len(cs) : cs[i].fn = fn})

AliveSDLs == {s \in 1..Len(sdls) : sdls[s].alive}

AliveGuards == {g \in 1..Len(guards) : guards[g].alive}

HasNul(bytes) == \E i \in 1..Len(bytes) : bytes[i] = 0

Overflows(u) == u.hi >= Half \div 2

Value(u) == u.hi * Half + u.lo

PassesValidation(b) ==
    ~HasNul(b.title) /\ ~Overflows(b.width) /\ ~Overflows(b.height)

\* C1: whenever the global quit (SDL_Quit, from dropping an `SDL`) is issued,
\* every subsystem guard obtained from that context has already been dropped.
C1_GlobalQuitAfterGuards ==
    op.name = "drop_SDL" =>
        \A g \in 1..Len(guards) : guards[g].sdl = op.self => ~guards[g].alive

\* C2: at most one `SDL` value returned by a successful init() is alive at
\* any time.
C2_AtMostOneRootContext == Cardinality(AliveSDLs) <= 1

\* C3: video() called repeatedly on the same context never leaves two video
\* guards alive together.
C3_AtMostOneVideoGuard ==
    \A g, h \in AliveGuards :
        (guards[g].kind = "video" /\ guards[h].kind = "video"
            /\ guards[g].sdl = guards[h].sdl) => g = h

\* C4: a live guard has caused no subsystem-quit call; a dropped guard has
\* caused exactly one, carrying the mask its constructor passed to
\* subsystem-init; and the drop itself makes that one native call only.
C4_GuardQuitsOnceWithItsMask ==
    /\ \A g \in 1..Len(guards) :
          IF guards[g].alive THEN guards[g].quits = <<>>
                             ELSE guards[g].quits = <<guards[g].mask>>
    /\ op.name = "drop_Subsystem" =>
          /\ Len(calls) = 1
          /\ calls[1].fn = "SDL_QuitSubSystem"
          /\ calls[1].args = <<guards[op.self].mask>>

\* C4 witness: a timer guard was constructed and has just been dropped.
C4_Witness ==
    /\ op.name = "drop_Subsystem"
    /\ guards[op.self].kind = "timer"
    /\ ~guards[op.self].alive
    /\ calls[1].args = <<{"SDL_INIT_TIMER"}>>

\* C5: no SDL_Flip or SDL_FreeSurface is issued on a Surface after the video
\* guard it was built under has been dropped.
C5_NoSurfaceCallAfterVideoQuit ==
    op.name \in {"flip", "drop_Surface"} => guards[surfaces[op.self].v].alive

\* C6: every SDL_InitSubSystem call made by a guard constructor happens while
\* some `SDL` value is alive.
C6_SubsystemInitUnderRootContext ==
    Count(calls, "SDL_InitSubSystem") > 0 => AliveSDLs # {}

\* C7: when mode-set fails inside build(), SDL_GetError is the very next
\* native call and the SdlError carries the mode-set call's message.
C7_ErrorReadRightAfterModeSet ==
    (op.name = "build" /\ ret.tag = "Err" /\ ret.err.tag = "SdlError") =>
        /\ Fns(calls) = <<"SDL_SetVideoMode", "SDL_GetError">>
        /\ ret.err.v.msg = "SDL_SetVideoMode"

\* C8: a build() whose title has a NUL byte, or whose width or height is
\* 2^31 or more, makes no native call at all.
C8_InvalidBuildMakesNoNativeCall ==
    (op.name = "build" /\ ~PassesValidation(builders[op.self])) => calls = <<>>

\* C8 witness: build() on a builder of width exactly 2^31 returned
\* WidthOverflows.
C8_Witness ==
    /\ op.name = "build"
    /\ builders[op.self].width = U32(Half \div 2, 0)
    /\ ~HasNul(builders[op.self].title)
    /\ ret.tag = "Err"
    /\ ret.err.tag = "WidthOverflows"
    /\ calls = <<>>

\* C9: a build() that passes validation makes exactly one SDL_SetVideoMode
\* call, with (width, height, 32, accumulated flags).
C9_ExactlyOneModeSet ==
    (op.name = "build" /\ PassesValidation(builders[op.self])) =>
        /\ Count(calls, "SDL_SetVideoMode") = 1
        /\ \A i \in 1..Len(calls) :
              calls[i].fn = "SDL_SetVideoMode" =>
                  calls[i].args = <<Value(builders[op.self].width),
                                    Value(builders[op.self].height),
                                    32,
                                    builders[op.self].window_flags>>

\* C9 witness: an 800x600 builder with two flags set was built.
C9_Witness ==
    /\ op.name = "build"
    /\ PassesValidation(builders[op.self])
    /\ Len(calls) >= 1
    /\ calls[1].fn = "SDL_SetVideoMode"
    /\ calls[1].args = <<800, 600, 32, {"SDL_FULLSCREEN", "SDL_RESIZABLE"}>>

\* C10: within build(), SDL_WM_SetCaption is called only when
\* SDL_SetVideoMode returned a non-null handle.
C10_CaptionOnlyAfterModeSetSuccess ==
    (op.name = "build" /\ Count(calls, "SDL_WM_SetCaption") > 0) =>
        \A i \in 1..Len(calls) :
            calls[i].fn = "SDL_SetVideoMode" => calls[i].ret # NULL

AliveSurfaces == {s \in 1..Len(surfaces) : surfaces[s].alive}

\* C11: no native surface handle is owned by two live Surfaces, and a
\* dropped Surface has passed its handle to SDL_FreeSurface exactly once.
C11_OneOwnerPerHandle ==
    /\ \A s, t \in AliveSurfaces :
          surfaces[s].inner = surfaces[t].inner => s = t
    /\ \A s \in 1..Len(surfaces) :
          IF surfaces[s].alive THEN surfaces[s].frees = <<>>
                               ELSE surfaces[s].frees = <<surfaces[s].inner>>

\* C12: a build() for which SDL_SetVideoMode returned a handle returns Ok
\* with a new live Surface, a second one on the same builder included, after
\* one mode-set call of its own; dropping a Surface makes one
\* SDL_FreeSurface call on its own handle and leaves every other Surface as
\* it was.
C12_StateOk ==
    /\ (op.name = "build" /\ Count(calls, "SDL_SetVideoMode") = 1
           /\ calls[1].ret # NULL) =>
          /\ ret.tag = "Ok"
          /\ ret.val = Len(surfaces)
          /\ surfaces[ret.val].alive
          /\ surfaces[ret.val].builder = op.self
          /\ surfaces[ret.val].inner = calls[1].ret
    /\ op.name = "drop_Surface" =>
          /\ Len(calls) = 1
          /\ calls[1].fn = "SDL_FreeSurface"
          /\ calls[1].args = <<surfaces[op.self].inner>>

C12_StepOk ==
    /\ op'.name = "build" =>
          \A s \in 1..Len(surfaces) : surfaces'[s] = surfaces[s]
    /\ op'.name = "drop_Surface" =>
          \A s \in 1..Len(surfaces) : s # op'.self => surfaces'[s] = surfaces[s]

C13_ValidationOrder ==
    op.name = "build" =>
        LET b == builders[op.self]
        IN  IF HasNul(b.title)
            THEN ret.tag = "Err" /\ ret.err.tag = "InvalidTitle"
            ELSE IF Overflows(b.width)
            THEN ret.tag = "Err" /\ ret.err.tag = "WidthOverflows"
            ELSE IF Overflows(b.height)
            THEN ret.tag = "Err" /\ ret.err.tag = "HeightOverflows"
            ELSE Len(calls) >= 1 /\ calls[1].fn = "SDL_SetVideoMode"

\* C13 witness: a title with a NUL byte and a width of 2^31 gave
\* InvalidTitle.
C13_Witness ==
    /\ op.name = "build"
    /\ HasNul(builders[op.self].title)
    /\ Overflows(builders[op.self].width)
    /\ ret.tag = "Err"
    /\ ret.err.tag = "InvalidTitle"

KnownCodes ==
    {"SDL_ENOMEM", "SDL_EFREAD", "SDL_EFWRITE", "SDL_EFSEEK", "SDL_UNSUPPORTED"}

ErrorCodeSet ==
    {"NoMemError", "ReadError", "WriteError", "SeekError", "UnsupportedError"}

\* C14: get_error() returns the typed ErrorCode when the library's error
\* code is a known one and Other(text) otherwise, and a code outside the
\* known ones is never turned into a member of the ErrorCode set.
C14_TypedErrorCodes ==
    /\ op.name = "get_error" =>
          IF op.self \in KnownCodes
          THEN ret.tag = "ErrorCode"
          ELSE ret.tag = "Other" /\ ret.msg = errSlot
    /\ (op.name = "ErrorCode_from" /\ op.self \notin KnownCodes) =>
          ret \notin ErrorCodeSet

ActiveTable ==
    (<<1, 0>> :> "MouseLeave") @@ (<<1, 1>> :> "MouseEnter") @@
    (<<2, 0>> :> "AppUnfocused") @@ (<<2, 1>> :> "AppFocused") @@
    (<<4, 0>> :> "Minimized") @@ (<<4, 1>> :> "Restored")

\* C15: the active-event decoder gives the table's entry for the six
\* (state, gain) pairs of the table and Unknown for every other pair.
C15_ActiveDecodeTable ==
    op.name = "ActiveEvent_from" =>
        LET k == <<op.self.state, op.self.gain>>
        IN  ret = IF k \in DOMAIN ActiveTable THEN ActiveTable[k] ELSE "Unknown"

\* C15 witness: (InputFocus, 7) was decoded to Unknown.
C15_Witness ==
    /\ op.name = "ActiveEvent_from"
    /\ op.self = [state |-> 2, gain |-> 7]
    /\ ret = "Unknown"

\* C16: in the keyboard, mouse-button and joystick-button decoders Released
\* gives the up result, Pressed the down result, and any other raw state
\* gives Unknown, reported neither as released nor as pressed.
C16_OtherStateIsUnknown ==
    /\ op.name = "KeyboardEvent_from" =>
          ret.tag = (CASE op.self.state = 0 -> "KeyUp"
                       [] op.self.state = 1 -> "KeyDown"
                       [] OTHER -> "Unknown")
    /\ op.name \in {"MouseButtonEvent_from", "JoyButtonEvent_from"} =>
          CASE op.self.state = 0 -> "pressed" \in DOMAIN ret /\ ~ret.pressed
            [] op.self.state = 1 -> "pressed" \in DOMAIN ret /\ ret.pressed
            [] OTHER -> "pressed" \notin DOMAIN ret

EventVariants ==
    {"Active", "Keyboard", "MouseMotion", "MouseButton", "JoyAxis",
     "JoyButton", "JoyHat", "JoyBall", "Resize", "Expose", "Quit", "User",
     "Unknown"}

HandledTypes == (1..12) \cup {16, 17} \cup (24..31)

\* C17: every discriminant decodes to one Event variant, and a
\* discriminant without a handler decodes to Unknown.
C17_DecodeTotal ==
    op.name = "Event_from" =>
        /\ ret.tag \in EventVariants
        /\ op.self.type \notin HandledTypes => ret.tag = "Unknown"
        /\ op.self.type \in HandledTypes => ret.tag # "Unknown"

\* C17 witness: discriminant 200 was decoded to Unknown.
C17_Witness ==
    /\ op.name = "Event_from"
    /\ op.self.type = 200
    /\ ret.tag = "Unknown"

\* C18: init() makes one SDL_Init call with mask 0; it returns Err, built
\* from the error slot, exactly when the status is non-zero and a new live
\* `SDL` otherwise; a failed init() creates no `SDL`, so no SDL_Quit can
\* follow from it.
C18_StateOk ==
    op.name = "init" =>
        /\ Count(calls, "SDL_Init") = 1
        /\ calls[1].fn = "SDL_Init"
        /\ calls[1].args = <<{}>>
        /\ IF calls[1].ret # 0
           THEN /\ Fns(calls) = <<"SDL_Init", "SDL_GetError">>
                /\ ret.tag = "Err"
                /\ ret.err.tag = "Other"
                /\ ret.err.msg = calls[2].ret
                /\ ret.err.msg = "SDL_Init"
           ELSE /\ Fns(calls) = <<"SDL_Init">>
                /\ ret.tag = "Ok"
                /\ ret.val = Len(sdls)
                /\ sdls[ret.val].alive

C18_StepOk ==
    op'.name = "init" =>
        IF ret'.tag = "Err" THEN sdls' = sdls
                            ELSE sdls' = Append(sdls, [alive |-> TRUE])

C18_InitOnce == [](C18_StateOk) /\ [][C18_StepOk]_vars

\* C18 witness: an init() failed and no `SDL` exists.
C18_Witness ==
    /\ op.name = "init"
    /\ ret.tag = "Err"
    /\ sdls = <<>>
    /\ Len(calls) = 2

SetterBit ==
    ("fullscreen" :> "SDL_FULLSCREEN") @@ ("opengl" :> "SDL_OPENGL") @@
    ("borderless" :> "SDL_NOFRAME") @@ ("resizable" :> "SDL_RESIZABLE")

\* C19: a flag setter adds its own bit to the builder's mask, which starts
\* empty, leaves the other bits, the title, the width and the height as they
\* were and makes no native call (so a repeated setter changes nothing and
\* the order of setters does not matter).
C19_StepOk ==
    op'.name \in DOMAIN SetterBit =>
        LET b == op'.self
        IN  /\ builders'[b].window_flags =
                   builders[b].window_flags \cup {SetterBit[op'.name]}
            /\ builders'[b].title = builders[b].title
            /\ builders'[b].width = builders[b].width
            /\ builders'[b].height = builders[b].height
            /\ calls' = <<>>
            /\ errSlot' = errSlot

C19_SettersOrBits ==
    /\ [](op.name = "window" => builders[ret.val].window_flags = {})
    /\ [][C19_StepOk]_vars

\* C19 witness: resizable() was applied to a builder that already had the
\* fullscreen and resizable bits.
C19_Witness ==
    /\ op.name = "resizable"
    /\ builders[op.self].window_flags = {"SDL_FULLSCREEN", "SDL_RESIZABLE"}

\* C20: flip() makes one SDL_Flip call on the Surface's handle, returns Err
\* exactly when the status is non-zero, with SDL_GetError as the next native
\* call, and leaves the Surface as it was.
C20_StateOk ==
    op.name = "flip" =>
        /\ calls[1].fn = "SDL_Flip"
        /\ calls[1].args = <<surfaces[op.self].inner>>
        /\ IF calls[1].ret # 0
           THEN /\ Fns(calls) = <<"SDL_Flip", "SDL_GetError">>
                /\ ret.tag = "Err"
                /\ ret.err.msg = "SDL_Flip"
           ELSE /\ Fns(calls) = <<"SDL_Flip">>
                /\ ret.tag = "Ok"

C20_FlipOnce ==
    /\ [](C20_StateOk)
    /\ [][op'.name = "flip" => surfaces' = surfaces]_vars

\* C20 witness: a flip() failed and returned the flip call's message.
C20_Witness ==
    /\ op.name = "flip"
    /\ ret.tag = "Err"
    /\ ret.err.msg = "SDL_Flip"
    /\ surfaces[op.self].alive

\* C21: packing a Color gives the big-endian value r*2^24 + g*2^16 + b*2^8 + a
\* (Color(1,2,3,4) packs to 0x01020304, whose halves are 0x0102 and 0x0304),
\* and unpacking the packed value gives back the Color that was packed.
C21_PackRoundTrip ==
    op.name = "Color_into_u32" =>
        /\ ret.hi = op.self.r * 256 + op.self.g
        /\ ret.lo = op.self.b * 256 + op.self.a
        /\ (op.self = Color_rgba(1, 2, 3, 4) => ret = U32(258, 772))
        /\ Color_from_u32(ret) = op.self

C21_Witness ==
    /\ op.name = "Color_into_u32"
    /\ op.self = Color_rgba(1, 2, 3, 4)
    /\ ret = U32(258, 772)

\* C22: converting a Color to the native colour struct and back is the
\* identity, r, g, b going to the three colour bytes and a to `unused`, and
\* the same holds from the native struct to a Color and back.
C22_NativeRoundTrip ==
    /\ op.name = "Color_raw" =>
           /\ ret.r = op.self.r /\ ret.g = op.self.g /\ ret.b = op.self.b
           /\ ret.unused = op.self.a
           /\ Color_from_SDL_Color(ret) = op.self
    /\ op.name = "Color_from_SDL_Color" =>
           /\ ret.r = op.self.r /\ ret.g = op.self.g /\ ret.b = op.self.b
           /\ ret.a = op.self.unused
           /\ Color_raw(ret) = op.self

C22_Witness ==
    /\ op.name = "Color_from_SDL_Color"
    /\ op.self = [r |-> 1, g |-> 2, b |-> 3, unused |-> 4]
    /\ ret = Color_rgba(1, 2, 3, 4)

\* The values of the crate's two error types.
IsError(e) == e.tag \in {"Other", "ErrorCode"}

IsWindowBuildError(e) ==
    \/ e.tag \in {"InvalidTitle", "WidthOverflows", "HeightOverflows"}
    \/ e.tag = "SdlError" /\ IsError(e.v)

\* Whether the first native call of the last operation reported failure.
FirstCallFailed(bad) == calls # <<>> /\ calls[1].ret = bad

\* C23: no core operation panics for any input or native return value: each
\* returns a value of its result type, and a failure (of a native call or of
\* a validation) comes back as an Error or WindowBuildError value.
C23_NoPanic ==
    /\ op.name \in {"init", "video", "flip"} =>
           /\ ret.tag \in {"Ok", "Err"}
           /\ ret.tag = "Err" => IsError(ret.err)
           /\ (\E c \in 1..Len(calls) : calls[c].ret = -1) => ret.tag = "Err"
    /\ op.name = "window" => ret.tag = "Ok"
    /\ op.name \in {"fullscreen", "opengl", "borderless", "resizable"} =>
           ret = Unit
    /\ op.name = "build" =>
           /\ ret.tag \in {"Ok", "Err"}
           /\ ret.tag = "Err" => IsWindowBuildError(ret.err)
           /\ ~PassesValidation(builders[op.self]) => ret.tag = "Err"
           /\ FirstCallFailed(NULL) => ret.tag = "Err"
    /\ op.name = "ActiveEvent_from" =>
           ret \in {"MouseEnter", "MouseLeave", "AppFocused", "AppUnfocused",
                    "Minimized", "Restored", "Unknown"}
    /\ op.name = "KeyboardEvent_from" =>
           ret.tag \in {"KeyUp", "KeyDown", "Unknown"}
    /\ op.name \in {"MouseButtonEvent_from", "JoyButtonEvent_from"} =>
           ret.pressed \in BOOLEAN
    /\ op.name = "Event_from" => ret.tag \in EventVariants

C23_Witness ==
    /\ op.name = "build"
    /\ HasNul(builders[op.self].title)
    /\ ret.tag = "Err"
    /\ ret.err.tag = "InvalidTitle"

\* C24: build() issues SDL_SetVideoMode (and SDL_WM_SetCaption) only while
\* the video guard its WindowBuilder was obtained from is still alive.
C24_ModeSetOnlyUnderVideoGuard ==
    (op.name = "build" /\ (Count(calls, "SDL_SetVideoMode") > 0
                           \/ Count(calls, "SDL_WM_SetCaption") > 0)) =>
        guards[builders[op.self].v].alive

GuardCtors == {"video", "timer_new", "cdrom_new", "event_new"}

\* A guard constructor whose SDL_InitSubSystem call reported a non-zero
\* status returned Err after that one call, with no SDL_QuitSubSystem; and
\* every SDL_QuitSubSystem made so far belongs to a guard that was created.
C25_StateOk ==
    /\ (op.name \in GuardCtors /\ FirstCallFailed(-1)) =>
           /\ ret.tag = "Err"
           /\ Count(calls, "SDL_InitSubSystem") = 1
           /\ Count(calls, "SDL_QuitSubSystem") = 0
    /\ \A g \in 1..Len(guards) :
           /\ Len(guards[g].quits) <= 1
           /\ guards[g].alive => guards[g].quits = <<>>

\* A failing guard constructor creates no guard.
C25_StepOk ==
    (op'.name \in GuardCtors /\ calls' # <<>> /\ calls'[1].ret # 0) =>
        guards' = guards

\* C25: a guard construction whose subsystem-init reports a non-zero status
\* returns Err, creates no guard, makes exactly one subsystem-init attempt
\* and causes no subsystem-quit for the failed attempt.
C25_FailedGuardLeavesNothing == [](C25_StateOk) /\ [][C25_StepOk]_vars

C25_Witness ==
    /\ op.name = "timer_new"
    /\ ret.tag = "Err"
    /\ Fns(calls) = <<"SDL_InitSubSystem", "SDL_GetError">>
    /\ guards = <<>>

\* Every Surface wraps a non-null handle, and no SDL_Flip or SDL_FreeSurface
\* is called with a null handle.
C26_StateOk ==
    /\ \A s \in 1..Len(surfaces) : surfaces[s].inner # NULL
    /\ \A c \in 1..Len(calls) :
           calls[c].fn \in {"SDL_Flip", "SDL_FreeSurface"} =>
               calls[c].args[1] # NULL
    /\ (op.name = "build" /\ ret.tag = "Err") =>
           Count(calls, "SDL_FreeSurface") = 0

\* A build() whose mode-set returned null creates no Surface.
C26_StepOk ==
    (op'.name = "build" /\ calls' # <<>> /\ calls'[1].ret = NULL) =>
        surfaces' = surfaces

\* C26: every Surface holds a non-null handle: build() wraps the handle only
\* after the null check, flip and free-surface never get a null handle, and
\* a failed mode-set creates no Surface and causes no free-surface call.
C26_SurfaceHandleNonNull == [](C26_StateOk) /\ [][C26_StepOk]_vars

C26_Witness ==
    /\ op.name = "build"
    /\ FirstCallFailed(NULL)
    /\ ret.tag = "Err"
    /\ surfaces # <<>>

\* C27: the decoders of scalar payloads copy every field verbatim, with no
\* clamping or validation, for every raw value.
C27_ScalarsVerbatim ==
    /\ op.name = "MouseMotionEvent_from" =>
           /\ ret.x = op.self.x /\ ret.y = op.self.y
           /\ ret.xrel = op.self.xrel /\ ret.yrel = op.self.yrel
    /\ op.name = "MouseButtonEvent_from" =>
           ret.x = op.self.x /\ ret.y = op.self.y
    /\ op.name = "JoyAxisEvent_from" =>
           /\ ret.device = op.self.which /\ ret.axis = op.self.axis
           /\ ret.value = op.self.value
    /\ op.name = "JoyButtonEvent_from" =>
           ret.device = op.self.which /\ ret.button = op.self.button
    /\ op.name = "JoyHatEvent_from" =>
           /\ ret.device = op.self.which /\ ret.hat = op.self.hat
           /\ ret.value = op.self.value
    /\ op.name = "JoyBallEvent_from" =>
           /\ ret.device = op.self.which /\ ret.ball = op.self.ball
           /\ ret.xrel = op.self.xrel /\ ret.yrel = op.self.yrel
    /\ op.name = "ResizeEvent_from" =>
           ret.w = op.self.w /\ ret.h = op.self.h

C27_Witness ==
    /\ op.name = "JoyAxisEvent_from"
    /\ op.self.value = -32768
    /\ ret = [value |-> -32768, axis |-> 255, device |-> 255]

\* C28: a size-check failure of build() carries the offending dimension:
\* WidthOverflows(v) has v = the builder's width and HeightOverflows(v) has
\* v = the builder's height.
C28_OverflowCarriesDimension ==
    (op.name = "build" /\ ret.tag = "Err") =>
        /\ ret.err.tag = "WidthOverflows" => ret.err.v = builders[op.self].width
        /\ ret.err.tag = "HeightOverflows" =>
               ret.err.v = builders[op.self].height

\* The function and arguments of each native call, without what it returned.
CallArgs(cs) == [i \in 1..Len(cs) |-> <<cs[i].fn, cs[i].args>>]

\* What a build() passes to mode-set and caption-set, its first two calls.
BuildArgs(cs) == IF Len(cs) >= 2 THEN SubSeq(CallArgs(cs), 1, 2) ELSE <<>>

\* build() leaves the builder as it was, and a build() right after a
\* build() of the same builder passes the same arguments.
C29_StepOk ==
    op'.name = "build" =>
        /\ builders' = builders
        /\ (op.name = "build" /\ op.self = op'.self) =>
               BuildArgs(calls') = BuildArgs(calls)

\* C29: build() never modifies the builder, whether it returns Ok or an
\* error, so repeated build() calls on one builder pass identical arguments
\* to mode-set and caption-set.
C29_BuildLeavesBuilder == [][C29_StepOk]_vars

\* C29 witness: one builder was built twice, both times successfully, with
\* a flag set.
C29_Witness ==
    /\ op.name = "build"
    /\ Len(surfaces) = 2
    /\ surfaces[1].builder = op.self
    /\ surfaces[2].builder = op.self
    /\ builders[op.self].window_flags # {}
    /\ BuildArgs(calls)[1][1] = "SDL_SetVideoMode"

\* C30: the width and height handed to SDL_SetVideoMode are non-negative
\* and equal the builder's u32 width and height, which are both below 2^31
\* whenever the call is made.
C30_SizesNeverWrap ==
    \A i \in 1..Len(calls) :
        (op.name = "build" /\ calls[i].fn = "SDL_SetVideoMode") =>
            /\ calls[i].args[1] >= 0
            /\ calls[i].args[2] >= 0
            /\ ~Overflows(builders[op.self].width)
            /\ ~Overflows(builders[op.self].height)
            /\ calls[i].args[1] = Value(builders[op.self].width)
            /\ calls[i].args[2] = Value(builders[op.self].height)

\* C30 witness: a builder of width and height 2^31 - 1 was built.
C30_Witness ==
    /\ op.name = "build"
    /\ builders[op.self].width = U32(Half \div 2 - 1, Half - 1)
    /\ builders[op.self].height = U32(Half \div 2 - 1, Half - 1)
    /\ calls # <<>>
    /\ calls[1].fn = "SDL_SetVideoMode"
    /\ calls[1].args[1] = 2147483647
    /\ calls[1].args[2] = 2147483647

====
